---- MODULE Spec2Model ----
(***************************************************************************)
(* Data-access layer of the dashboard: the seeding routine (seed.ts, in    *)
(* its Prisma and its Drizzle variant), the seed route, and the read       *)
(* operations of the query layer (data.ts, in both variants), over a       *)
(* relational store of four tables.                                        *)
(*                                                                         *)
(* Strings that the code inspects (names, emails, statuses, queries) are   *)
(* sequences of one-character strings, so that case folding, substring     *)
(* search and parsing are computed and not assumed.                        *)
(***************************************************************************)
EXTENDS Integers, Sequences, FiniteSets, TLC

VARIABLES
    variant,      \* which build of the data layer runs: "prisma" or "drizzle"
    fkEnforced,   \* the store's schema has the foreign key of invoices.customer_id
    users,        \* table users: set of rows
    customers,    \* table customers
    revenue,      \* table revenue
    invoices,     \* table invoices
    nextId,       \* the store's generator of invoice ids (uuid_generate_v4)
    status,       \* per invocation of seedDatabase: idle/running/completed/rejected
    err,          \* per invocation: the error seedDatabase rejected with
    failLog,      \* per invocation: the failed calls, in the order they failed
    taskPc,       \* per invocation and per-row task of a stage: its position
    invPc,        \* per invocation: position inside seedInvoices
    invSeen,      \* per invocation: the count seedInvoices read (-1: not yet)
    invInserted,  \* per invocation: rows it inserted into invoices
    invRet,       \* per invocation: length of what seedInvoices returned (-1: not yet)
    startCounts,  \* per invocation: the four row counts when it started
    afterDone,    \* per invocation: it started after another run had completed
    response,     \* per invocation: what the GET of the seed route that made it answered
    cardState,    \* fetchCardData: idle / waiting (on Promise.all) / returned / rejected
    cardPc,       \* fetchCardData: per sub-query idle / issued / done / failed
    cardVal,      \* fetchCardData: per sub-query the value the store returned (-1: none)
    cardAfter,    \* fetchCardData: per sub-query, the sub-queries already completed
                  \* when it was issued
    cardOut,      \* fetchCardData: what the call returned or threw
    last,         \* the last read operation of the query layer and its outcome
    outcomes,     \* fetchInvoiceById: the <<cause, observable outcome>> pairs seen
    pageLog,      \* fetchFilteredInvoices: pages fetched so far for one query
    env,          \* process.env.NODE_ENV of the process
    globalPrisma, \* globalThis.prisma: <<>> when undefined, else <<handle>>
    created,      \* clients created so far; client handles are 1..created
    moduleHandle, \* per evaluation of db.ts, in order: the handle its prisma names
    connected,    \* the handles that hold open connections
    phase,        \* the process: running / exiting (beforeExit has been emitted)
    lastUsed      \* the handle the last operation ran on (0: none yet)

seedVars == <<status, err, failLog, taskPc, invPc, invSeen, invInserted, invRet,
              startCounts, afterDone, response>>
storeVars == <<users, customers, revenue, invoices, nextId>>
cardVars == <<cardState, cardPc, cardVal, cardAfter, cardOut>>
queryVars == <<last, outcomes, pageLog>>
readVars == <<cardVars, queryVars>>
dbVars == <<env, globalPrisma, created, moduleHandle, connected, phase, lastUsed>>
\* What no operation of seed.ts and data.ts changes.
configVars == <<variant, fkEnforced>>
fixedVars == <<configVars, dbVars>>

\* No error / no failed call.
NoErr == <<>>
Variants == {"prisma", "drizzle"}
\* Two invocations of seedDatabase, e.g. two GET requests on the seed route.
Procs == {"A", "B"}

\* Most invoices a store holds before any seeding, in the seeding specification.
MaxPreInvoices == 1

(***************************************************************************)
(* placeholder-data: the rows the seed writes.                             *)
(***************************************************************************)
Plain(text) == [alg |-> "plain", text |-> text]

\* bcrypt.hash(user.password, 10)
Hash(pw) == [alg |-> "bcrypt", text |-> pw.text]

PlaceholderUsers ==
    { [id |-> "u1", email |-> "user@nextmail.com", password |-> Plain("123456")] }

PlaceholderCustomers ==
    { [id |-> "c1", name |-> <<"L", "e", "e">>, email |-> <<"l", "@", "x">>],
      [id |-> "c2", name |-> <<"A", "m", "y">>, email |-> <<"a", "@", "x">>] }

PlaceholderRevenue == { [month |-> "Jan", revenue |-> 2000] }

\* The two invoice statuses, as the text the search inspects.
Paid == <<"p", "a", "i", "d">>
Pending == <<"p", "e", "n", "d", "i", "n", "g">>

\* invoices is an array: the rows are inserted in one batch, ids come from the store.
PlaceholderInvoices ==
    << [customer_id |-> "c1", amount |-> 15795, status |-> Pending, date |-> 3],
       [customer_id |-> "c2", amount |-> 20348, status |-> Paid, date |-> 2] >>

Stages == <<"users", "customers", "revenue", "invoices">>
RowStages == {"users", "customers", "revenue"}

PlaceholderRows(s) ==
    CASE s = "users" -> PlaceholderUsers
      [] s = "customers" -> PlaceholderCustomers
      [] s = "revenue" -> PlaceholderRevenue

\* The key a stage's upsert or existence check uses.
KeyOf(s, row) == IF s = "revenue" THEN row.month ELSE row.id

\* One task per element of users.map / customers.map / revenue.map.
Tasks == UNION { { <<s, KeyOf(s, r)>> : r \in PlaceholderRows(s) } : s \in RowStages }

TasksOf(s) == { t \in Tasks : t[1] = s }

RowOf(t) == CHOOSE r \in PlaceholderRows(t[1]) : KeyOf(t[1], r) = t[2]

(***************************************************************************)
(* The store: tables with their constraints (schema.ts).                   *)
(***************************************************************************)
Table(s) ==
    CASE s = "users" -> users
      [] s = "customers" -> customers
      [] s = "revenue" -> revenue

\* where: { id } / where(eq(table.id, id)) / where(eq(revenue.month, month))
RowExists(t) == \E r \in Table(t[1]) : KeyOf(t[1], r) = t[2]

\* Variation: the row is written as the placeholder data has it.
NewRow_Unhashed(t) == RowOf(t)

\* The row a stage creates: users store the hashed password.
NewRow(t) ==
    IF t[1] = "users"
    THEN [RowOf(t) EXCEPT !.password = Hash(RowOf(t).password)]
    ELSE RowOf(t)

\* Variation: a store without primary keys and unique constraints.
ConstraintsAllow_None(t) == TRUE

\* Primary keys and unique constraints: users.id, users.email, customers.id,
\* revenue.month.
ConstraintsAllow(t) ==
    /\ ~RowExists(t)
    /\ t[1] = "users" => \A r \in users : r.email # RowOf(t).email

\* invoices.customer_id references customers.id in the schema of db.ts; the
\* schema read back from the database has no such reference. Where the
\* reference is declared the store refuses rows that break it.
ForeignKeyHolds(rows) ==
    fkEnforced => \A i \in 1..Len(rows) : \E c \in customers : c.id = rows[i].customer_id

RowCounts ==
    [users |-> Cardinality(users), customers |-> Cardinality(customers),
     revenue |-> Cardinality(revenue), invoices |-> Cardinality(invoices)]

(***************************************************************************)
(* Stores the seeding may start from.                                      *)
(***************************************************************************)
PreInvoice(n) ==
    [id |-> n, customer_id |-> "c1", amount |-> 500, status |-> Paid, date |-> 1]

StaleUser == [id |-> "u1", email |-> "old@mail.com", password |-> Hash(Plain("old"))]
ClashUser == [id |-> "u0", email |-> "user@nextmail.com", password |-> Hash(Plain("x"))]
StaleCustomer == [id |-> "c1", name |-> <<"O", "l", "d">>, email |-> <<"o", "@", "x">>]
StaleRevenue == [month |-> "Jan", revenue |-> 1]

InitialStores ==
    { [users |-> {}, customers |-> {}, revenue |-> {}, pre |-> 0],
      [users |-> {StaleUser}, customers |-> {StaleCustomer},
       revenue |-> {StaleRevenue}, pre |-> 0],
      [users |-> {ClashUser}, customers |-> {}, revenue |-> {}, pre |-> 0] }
    \cup { [users |-> {}, customers |-> {StaleCustomer}, revenue |-> {}, pre |-> n] :
            n \in 1..MaxPreInvoices }

(***************************************************************************)
(* seed.ts: the stages.  A store call is issued (the task's position says  *)
(* which call is in flight) and then takes effect and returns in one step, *)
(* or fails.  The tasks of a stage run under Promise.all.                  *)
(***************************************************************************)
InFlight == {"hash", "select", "insert", "upsert"}

\* The store call a per-row task makes first: prisma.X.upsert, or the Drizzle
\* variant's existence check db.select().
FirstCall == IF variant = "prisma" THEN "upsert" ELSE "select"

\* users.map / customers.map / revenue.map: every element's task is started.
Issue(p, s) ==
    taskPc' = [taskPc EXCEPT ![p] =
                 [t \in Tasks |-> IF t[1] = s
                                  THEN (IF s = "users" THEN "hash" ELSE FirstCall)
                                  ELSE @[t]]]

\* Variation: the stage was called but not awaited.
StageSettled_NotAwaited(p, s) == \A t \in TasksOf(s) : taskPc[p][t] # "idle"

\* await Promise.all(...) of stage s has resolved: every task fulfilled.
StageSettled(p, s) == \A t \in TasksOf(s) : taskPc[p][t] = "done"

StageIdle(p, s) == \A t \in TasksOf(s) : taskPc[p][t] = "idle"

\* Variation: every rejection overwrites the previous one.
SettledError_Last(cur, e) == e

\* A promise settles once: Promise.all, and so seedDatabase, keeps the first
\* rejection.
SettledError(cur, e) == IF cur = NoErr THEN e ELSE cur

\* Variation: the failure is logged and not passed on to the caller.
Fail_Swallowed(p, e) ==
    /\ failLog' = [failLog EXCEPT ![p] = Append(@, e)]
    /\ UNCHANGED <<err, status>>

\* A call of invocation p fails with e: Promise.all rejects, the await in
\* seedDatabase throws, the catch logs and rethrows.
Fail(p, e) ==
    /\ failLog' = [failLog EXCEPT ![p] = Append(@, e)]
    /\ err' = [err EXCEPT ![p] = SettledError(@, e)]
    /\ status' = [status EXCEPT ![p] = IF @ = "running" THEN "rejected" ELSE @]

InsertRow(t) ==
    /\ users' = IF t[1] = "users" THEN users \cup {NewRow(t)} ELSE users
    /\ customers' = IF t[1] = "customers" THEN customers \cup {NewRow(t)} ELSE customers
    /\ revenue' = IF t[1] = "revenue" THEN revenue \cup {NewRow(t)} ELSE revenue
    /\ UNCHANGED <<invoices, nextId>>

\* Variations: no emptiness check; a check that tolerates one row.
InvoicesExist_Never(n) == FALSE
InvoicesExist_MoreThanOne(n) == n > 1

\* if (existingInvoices > 0)
InvoicesExist(n) == n > 0

\* seedDatabase(): the try block starts with await seedUsers().
SeedDatabase(p) ==
    /\ status[p] = "idle"
    /\ status' = [status EXCEPT ![p] = "running"]
    /\ startCounts' = [startCounts EXCEPT ![p] = RowCounts]
    /\ afterDone' = [afterDone EXCEPT ![p] = \E q \in Procs \ {p} : status[q] = "completed"]
    /\ Issue(p, "users")
    /\ UNCHANGED <<fixedVars, readVars, response, storeVars, err, failLog, invPc, invSeen, invInserted, invRet>>

\* const hashedPassword = await bcrypt.hash(user.password, 10)
HashDone(p, t) ==
    /\ taskPc[p][t] = "hash"
    /\ taskPc' = [taskPc EXCEPT ![p][t] = FirstCall]
    /\ UNCHANGED <<fixedVars, readVars, response, storeVars, status, err, failLog, invPc, invSeen, invInserted,
                   invRet, startCounts, afterDone>>

\* Variation: the update writes the placeholder row over the stored one.
UpsertUpdate_Overwrite(old, t) == NewRow(t)

\* update: {}: what the row found becomes.
UpsertUpdate(old, t) == old

\* The update branch of an upsert, on the row of the key.
UpdateRow(t) ==
    LET updated(s, rows) ==
            IF t[1] = s
            THEN {IF KeyOf(s, r) = t[2] THEN UpsertUpdate(r, t) ELSE r : r \in rows}
            ELSE rows
    IN /\ users' = updated("users", users)
       /\ customers' = updated("customers", customers)
       /\ revenue' = updated("revenue", revenue)
       /\ UNCHANGED <<invoices, nextId>>

\* prisma.X.upsert({ where: key, update: {}, create: row })
Upsert(p, t) ==
    /\ taskPc[p][t] = "upsert"
    /\ IF RowExists(t)
       THEN /\ taskPc' = [taskPc EXCEPT ![p][t] = "done"]
            /\ UpdateRow(t)
            /\ UNCHANGED <<status, err, failLog>>
       ELSE IF ConstraintsAllow(t)
       THEN /\ taskPc' = [taskPc EXCEPT ![p][t] = "done"]
            /\ InsertRow(t)
            /\ UNCHANGED <<status, err, failLog>>
       ELSE /\ taskPc' = [taskPc EXCEPT ![p][t] = "failed"]
            /\ Fail(p, t)
            /\ UNCHANGED storeVars
    /\ UNCHANGED <<fixedVars, readVars, response, invPc, invSeen, invInserted, invRet, startCounts, afterDone>>

\* Drizzle: const existing = await db.select().from(table).where(eq(key)).limit(1)
Select(p, t) ==
    /\ taskPc[p][t] = "select"
    /\ taskPc' = [taskPc EXCEPT ![p][t] = IF RowExists(t) THEN "done" ELSE "insert"]
    /\ UNCHANGED <<fixedVars, readVars, response, storeVars, status, err, failLog, invPc, invSeen, invInserted,
                   invRet, startCounts, afterDone>>

\* Drizzle: if (existing.length === 0) return await db.insert(table).values(row)
Insert(p, t) ==
    /\ taskPc[p][t] = "insert"
    /\ IF ConstraintsAllow(t)
       THEN /\ taskPc' = [taskPc EXCEPT ![p][t] = "done"]
            /\ InsertRow(t)
            /\ UNCHANGED <<status, err, failLog>>
       ELSE /\ taskPc' = [taskPc EXCEPT ![p][t] = "failed"]
            /\ Fail(p, t)
            /\ UNCHANGED storeVars
    /\ UNCHANGED <<fixedVars, readVars, response, invPc, invSeen, invInserted, invRet, startCounts, afterDone>>

\* The call in flight of a per-row task fails (connectivity, timeout).
TaskFail(p, t) ==
    /\ taskPc[p][t] \in InFlight
    /\ taskPc' = [taskPc EXCEPT ![p][t] = "failed"]
    /\ Fail(p, t)
    /\ UNCHANGED <<fixedVars, readVars, response, storeVars, invPc, invSeen, invInserted, invRet, startCounts,
                   afterDone>>

\* await seedCustomers(), reached once await seedUsers() has resolved.
SeedCustomers(p) ==
    /\ status[p] = "running"
    /\ StageSettled(p, "users")
    /\ StageIdle(p, "customers")
    /\ Issue(p, "customers")
    /\ UNCHANGED <<fixedVars, readVars, response, storeVars, status, err, failLog, invPc, invSeen, invInserted,
                   invRet, startCounts, afterDone>>

\* await seedRevenue()
SeedRevenue(p) ==
    /\ status[p] = "running"
    /\ StageSettled(p, "customers")
    /\ StageIdle(p, "revenue")
    /\ Issue(p, "revenue")
    /\ UNCHANGED <<fixedVars, readVars, response, storeVars, status, err, failLog, invPc, invSeen, invInserted,
                   invRet, startCounts, afterDone>>

\* await seedInvoices(): it issues the count of the invoices table.
SeedInvoices(p) ==
    /\ status[p] = "running"
    /\ StageSettled(p, "revenue")
    /\ invPc[p] = "idle"
    /\ invPc' = [invPc EXCEPT ![p] = "count"]
    /\ UNCHANGED <<fixedVars, readVars, response, storeVars, status, err, failLog, taskPc, invSeen, invInserted,
                   invRet, startCounts, afterDone>>

\* The count returns; with invoices present seedInvoices returns [] and
\* seedDatabase completes, else the batch insert is issued.
InvoiceCount(p) ==
    /\ invPc[p] = "count"
    /\ invSeen' = [invSeen EXCEPT ![p] = Cardinality(invoices)]
    /\ IF InvoicesExist(Cardinality(invoices))
       THEN /\ invPc' = [invPc EXCEPT ![p] = "done"]
            /\ invRet' = [invRet EXCEPT ![p] = 0]
            /\ status' = [status EXCEPT ![p] = "completed"]
       ELSE /\ invPc' = [invPc EXCEPT ![p] = "insert"]
            /\ UNCHANGED <<invRet, status>>
    /\ UNCHANGED <<fixedVars, readVars, response, storeVars, err, failLog, taskPc, invInserted, startCounts,
                   afterDone>>

\* The rows of the batch, with ids generated by the store.
NewInvoices ==
    { [id |-> nextId + i - 1, customer_id |-> PlaceholderInvoices[i].customer_id,
       amount |-> PlaceholderInvoices[i].amount, status |-> PlaceholderInvoices[i].status,
       date |-> PlaceholderInvoices[i].date] : i \in 1..Len(PlaceholderInvoices) }

\* prisma.invoice.createMany({ data, skipDuplicates }) / db.insert(invoices).values(...)
InvoiceInsert(p) ==
    /\ invPc[p] = "insert"
    /\ IF ForeignKeyHolds(PlaceholderInvoices)
       THEN /\ invoices' = invoices \cup NewInvoices
            /\ nextId' = nextId + Len(PlaceholderInvoices)
            /\ invInserted' = [invInserted EXCEPT ![p] = @ + Len(PlaceholderInvoices)]
            /\ invRet' = [invRet EXCEPT ![p] = Len(PlaceholderInvoices)]
            /\ invPc' = [invPc EXCEPT ![p] = "done"]
            /\ status' = [status EXCEPT ![p] = "completed"]
            /\ UNCHANGED <<err, failLog>>
       ELSE /\ invPc' = [invPc EXCEPT ![p] = "failed"]
            /\ Fail(p, <<"invoices", "insert">>)
            /\ UNCHANGED <<invoices, nextId, invInserted, invRet>>
    /\ UNCHANGED <<fixedVars, readVars, response, users, customers, revenue, taskPc, invSeen, startCounts,
                   afterDone>>

\* A store call of seedInvoices fails.
InvoiceFail(p) ==
    /\ invPc[p] \in {"count", "insert"}
    /\ invPc' = [invPc EXCEPT ![p] = "failed"]
    /\ Fail(p, <<"invoices", invPc[p]>>)
    /\ UNCHANGED <<fixedVars, readVars, response, storeVars, taskPc, invSeen, invInserted, invRet, startCounts,
                   afterDone>>

(***************************************************************************)
(* seed/route.ts: the GET handler.                                         *)
(***************************************************************************)
NoResponse == [status |-> 0, key |-> "none", text |-> ""]

\* Variation: the handler answers success whatever happened.
RouteResponse_AlwaysOk(outcome) ==
    [status |-> 200, key |-> "message", text |-> "Database seeded successfully"]

\* try { await seedDatabase(); return Response.json({ message }) }
\* catch { return Response.json({ error }, { status: 500 }) }
RouteResponse(outcome) ==
    IF outcome = "completed"
    THEN [status |-> 200, key |-> "message", text |-> "Database seeded successfully"]
    ELSE [status |-> 500, key |-> "error", text |-> "Failed to seed database"]

\* The await of seedDatabase() in GET has resolved or thrown: GET returns.
Respond(p) ==
    /\ status[p] \in {"completed", "rejected"}
    /\ response[p] = NoResponse
    /\ response' = [response EXCEPT ![p] = RouteResponse(status[p])]
    /\ UNCHANGED <<fixedVars, readVars, storeVars, status, err, failLog, taskPc, invPc, invSeen,
                   invInserted, invRet, startCounts, afterDone>>

vars == <<configVars, storeVars, seedVars, readVars, dbVars>>

(***************************************************************************)
(* data.ts: fetchCardData.  Four sub-queries, joined by Promise.all.       *)
(***************************************************************************)
CardQueries == {"invoiceCount", "customerCount", "paid", "pending"}

\* sum of amounts of the invoices of a set
RECURSIVE SumAmounts(_)
SumAmounts(S) ==
    IF S = {} THEN 0
    ELSE LET x == CHOOSE y \in S : TRUE IN x.amount + SumAmounts(S \ {x})

\* Variation: the sums are taken over the invoices of every status.
CardAnswer_AnyStatus(q) ==
    CASE q = "invoiceCount" -> Cardinality(invoices)
      [] q = "customerCount" -> Cardinality(customers)
      [] OTHER -> SumAmounts(invoices)

\* What the store answers to a sub-query; an empty sum is null, read as 0
\* (Number(total) || 0, _sum?.amount ?? 0).
CardAnswer(q) ==
    CASE q = "invoiceCount" -> Cardinality(invoices)
      [] q = "customerCount" -> Cardinality(customers)
      [] q = "paid" -> SumAmounts({i \in invoices : i.status = Paid})
      [] q = "pending" -> SumAmounts({i \in invoices : i.status = Pending})

\* The sub-queries started before the await of Promise.all.  Drizzle: the four
\* query builders are started when Promise.all takes them.  Prisma: the two
\* counts and the paid aggregate; the pending aggregate is started inside the
\* then-callback of the paid aggregate.
IssuedAtCall ==
    IF variant = "prisma" THEN {"invoiceCount", "customerCount", "paid"} ELSE CardQueries

\* The sub-queries started by the completion of q (the then-callback).
IssuedOnCompletion(q) ==
    IF variant = "prisma" /\ q = "paid" THEN {"pending"} ELSE {}

CardCompleted == {q \in CardQueries : cardPc[q] \in {"done", "failed"}}

FetchCardData ==
    /\ cardState = "idle"
    /\ cardState' = "waiting"
    /\ cardPc' = [q \in CardQueries |-> IF q \in IssuedAtCall THEN "issued" ELSE "idle"]
    /\ cardAfter' = [q \in CardQueries |-> {}]
    /\ UNCHANGED <<fixedVars, storeVars, seedVars, queryVars, cardVal, cardOut>>

\* A sub-query returns its value.
CardQueryReturn(q) ==
    /\ cardPc[q] = "issued"
    /\ cardPc' = [x \in CardQueries |->
                    IF x = q THEN "done"
                    ELSE IF x \in IssuedOnCompletion(q) THEN "issued" ELSE cardPc[x]]
    /\ cardAfter' = [x \in CardQueries |->
                       IF x \in IssuedOnCompletion(q) THEN CardCompleted \cup {q}
                       ELSE cardAfter[x]]
    /\ cardVal' = [cardVal EXCEPT ![q] = CardAnswer(q)]
    /\ UNCHANGED <<fixedVars, storeVars, seedVars, queryVars, cardState, cardOut>>

\* A sub-query fails: Promise.all rejects, the catch throws the operation's error.
CardQueryFail(q) ==
    /\ cardPc[q] = "issued"
    /\ cardPc' = [cardPc EXCEPT ![q] = "failed"]
    /\ IF cardState = "waiting"
       THEN /\ cardState' = "rejected"
            /\ cardOut' = [outcome |-> "error", message |-> "Failed to fetch card data."]
       ELSE UNCHANGED <<cardState, cardOut>>
    /\ UNCHANGED <<fixedVars, storeVars, seedVars, queryVars, cardVal, cardAfter>>

\* Promise.all resolves: the four values are put together (amounts in cents,
\* before formatCurrency).
CardJoin ==
    /\ cardState = "waiting"
    /\ \A q \in CardQueries : cardPc[q] = "done"
    /\ cardState' = "returned"
    /\ cardOut' = [outcome |-> "ok",
                   numberOfInvoices |-> cardVal["invoiceCount"],
                   numberOfCustomers |-> cardVal["customerCount"],
                   totalPaidInvoices |-> cardVal["paid"],
                   totalPendingInvoices |-> cardVal["pending"]]
    /\ UNCHANGED <<fixedVars, storeVars, seedVars, queryVars, cardPc, cardVal, cardAfter>>

(***************************************************************************)
(* Text, as the store's LIKE / ILIKE and JavaScript's parseInt treat it.   *)
(***************************************************************************)
UpperChars == <<"A", "B", "C", "D", "E", "F", "G", "H", "I", "J", "K", "L", "M",
                "N", "O", "P", "Q", "R", "S", "T", "U", "V", "W", "X", "Y", "Z">>
LowerChars == <<"a", "b", "c", "d", "e", "f", "g", "h", "i", "j", "k", "l", "m",
                "n", "o", "p", "q", "r", "s", "t", "u", "v", "w", "x", "y", "z">>

LowerOf == [i \in 1..Len(UpperChars) |-> LowerChars[i]]
UpperIndex == [c \in {UpperChars[i] : i \in 1..Len(UpperChars)} |->
                 CHOOSE i \in 1..Len(UpperChars) : UpperChars[i] = c]

ToLower(c) == IF c \in DOMAIN UpperIndex THEN LowerOf[UpperIndex[c]] ELSE c

LowerCase(str) == [i \in 1..Len(str) |-> ToLower(str[i])]

\* str contains sub as a contiguous run
Contains(str, sub) ==
    \E i \in 0..(Len(str) - Len(sub)) : SubSeq(str, i + 1, i + Len(sub)) = sub

\* SQL LIKE: case-sensitive, % matches any run, _ any one character.
RECURSIVE LikeMatch(_, _)
LikeMatch(pat, str) ==
    IF pat = <<>> THEN str = <<>>
    ELSE IF Head(pat) = "%"
    THEN \E k \in 0..Len(str) : LikeMatch(Tail(pat), SubSeq(str, k + 1, Len(str)))
    ELSE /\ str # <<>>
         /\ Head(pat) = "_" \/ Head(pat) = Head(str)
         /\ LikeMatch(Tail(pat), Tail(str))

\* Drizzle: like(column, `%${query}%`)
DrizzleLike(col, query) == LikeMatch(<<"%">> \o query \o <<"%">>, col)

\* Prisma: { contains: query, mode: 'insensitive' }, an ILIKE whose pattern has
\* the wildcards of query escaped.
PrismaContains(col, query) == Contains(LowerCase(col), LowerCase(query))

DigitChars == <<"0", "1", "2", "3", "4", "5", "6", "7", "8", "9">>
IsDigit(c) == \E i \in 1..Len(DigitChars) : DigitChars[i] = c
DigitValue(c) == (CHOOSE i \in 1..Len(DigitChars) : DigitChars[i] = c) - 1

RECURSIVE SkipSpaces(_)
SkipSpaces(str) ==
    IF str # <<>> /\ Head(str) = " " THEN SkipSpaces(Tail(str)) ELSE str

\* The value of the longest run of digits str starts with, after acc.
RECURSIVE DigitRun(_, _)
DigitRun(str, acc) ==
    IF str # <<>> /\ IsDigit(Head(str))
    THEN DigitRun(Tail(str), 10 * acc + DigitValue(Head(str)))
    ELSE acc

\* NaN is <<>>, the number n is <<n>>.
NaN == <<>>

\* parseInt(query): leading blanks are skipped, a sign is read, then digits up
\* to the first character that is none; NaN when no digit is there.
ParseInt(query) ==
    LET str == SkipSpaces(query)
        signed == str # <<>> /\ Head(str) \in {"-", "+"}
        body == IF signed THEN Tail(str) ELSE str
        sign == IF signed /\ Head(str) = "-" THEN -1 ELSE 1
    IN IF body # <<>> /\ IsDigit(Head(body))
       THEN <<sign * DigitRun(body, 0)>>
       ELSE NaN

(***************************************************************************)
(* data.ts: the invoice search, the page count and the point lookup.       *)
(***************************************************************************)
ITEMS_PER_PAGE == 6

\* The customer row an invoice joins with (leftJoin / the customer relation).
CustomerOf(inv) == {c \in customers : c.id = inv.customer_id}

\* isNaN(queryAsNumber) ? undefined : eq(invoices.amount, queryAsNumber); an
\* undefined condition is left out of the OR.
AmountClause(inv, query) ==
    ParseInt(query) # NaN /\ inv.amount = ParseInt(query)[1]

\* The WHERE of fetchFilteredInvoices and fetchInvoicesPages in variant v.
MatchesIn(v, inv, query) ==
    IF v = "prisma"
    THEN \/ \E c \in CustomerOf(inv) : PrismaContains(c.name, query)
         \/ \E c \in CustomerOf(inv) : PrismaContains(c.email, query)
         \/ AmountClause(inv, query)
         \/ PrismaContains(inv.status, query)
    ELSE \/ \E c \in CustomerOf(inv) : DrizzleLike(c.name, query)
         \/ \E c \in CustomerOf(inv) : DrizzleLike(c.email, query)
         \/ DrizzleLike(inv.status, query)
         \/ AmountClause(inv, query)

\* The WHERE of the variant that runs.
Matches(inv, query) == MatchesIn(variant, inv, query)

Matching(query) == {inv \in invoices : Matches(inv, query)}

\* ORDER BY date DESC: the sequences that list S with dates never increasing.
\* Rows of equal date come in an order the store is free to choose, anew for
\* every query.
RECURSIVE DateDescOrders(_)
DateDescOrders(S) ==
    IF S = {} THEN {<<>>}
    ELSE LET top == {x \in S : \A y \in S : y.date <= x.date}
         IN UNION { { <<x>> \o rest : rest \in DateDescOrders(S \ {x}) } : x \in top }

Min(a, b) == IF a < b THEN a ELSE b

\* LIMIT ITEMS_PER_PAGE OFFSET offset / skip: offset, take: ITEMS_PER_PAGE
PageOf(ordered, currentPage) ==
    LET offset == (currentPage - 1) * ITEMS_PER_PAGE
    IN SubSeq(ordered, offset + 1, Min(offset + ITEMS_PER_PAGE, Len(ordered)))

\* Variation: Math.floor in place of Math.ceil.
TotalPages_Floor(count) == count \div ITEMS_PER_PAGE

\* Math.ceil(count / ITEMS_PER_PAGE)
TotalPages(count) ==
    IF count % ITEMS_PER_PAGE = 0
    THEN count \div ITEMS_PER_PAGE
    ELSE count \div ITEMS_PER_PAGE + 1

\* Variation: an integer division, which drops the cents.
DivideBy100_Truncated(amount) == [units |-> amount \div 100, hundredths |-> 0]

\* invoice.amount / 100, as an exact decimal: units and hundredths.
DivideBy100(amount) == [units |-> amount \div 100, hundredths |-> amount % 100]

\* catch (error) { console.error(...); throw new Error(<the operation's message>) }
\* Whatever was thrown inside the try block is replaced.
Catch(message, thrown) == [outcome |-> "error", message |-> message]

\* The error a failing store call throws inside the try block.
StoreError == [kind |-> "store", message |-> "connection lost"]

\* throw new Error('Invoice not found.'), inside the try block.
NotFoundThrown == [kind |-> "notfound", message |-> "Invoice not found."]

\* Variation: a failed store call is issued a second time.
Attempt_Retried(call, fails) == IF fails THEN <<call, call>> ELSE <<call>>

\* const data = await <store call>, inside try, with no loop around it: the
\* calls issued for one store call of an operation.
Attempt(call, fails) == <<call>>

NoPages == [query |-> <<>>, pages |-> [pg \in {} |-> <<>>]]

\* fetchInvoiceById(id)
FetchInvoiceById(id, storeFails) ==
    LET rows == {i \in invoices : i.id = id}
        thrown == IF storeFails THEN <<StoreError>>
                  ELSE IF rows = {} THEN <<NotFoundThrown>>
                  ELSE <<>>
        invoice == CHOOSE i \in rows : TRUE
        result == IF thrown # <<>>
                  THEN Catch("Failed to fetch invoice.", thrown[1])
                  ELSE [outcome |-> "ok",
                        value |-> [id |-> invoice.id,
                                   customer_id |-> invoice.customer_id,
                                   amount |-> DivideBy100(invoice.amount),
                                   status |-> invoice.status]]
    IN /\ last' = [op |-> "fetchInvoiceById", id |-> id, result |-> result,
                   storeFailed |-> storeFails,
                   calls |-> Attempt("invoice", storeFails)]
       /\ outcomes' = IF thrown # <<>>
                      THEN outcomes \cup {<<thrown[1].kind, result>>}
                      ELSE outcomes
       /\ pageLog' = NoPages
       /\ UNCHANGED <<fixedVars, storeVars, seedVars, cardVars>>

\* fetchInvoicesPages(query)
FetchInvoicesPages(query, storeFails) ==
    LET result == IF storeFails
                  THEN Catch("Failed to fetch total number of invoices.", StoreError)
                  ELSE [outcome |-> "ok",
                        value |-> TotalPages(Cardinality(Matching(query)))]
    IN /\ last' = [op |-> "fetchInvoicesPages", query |-> query, result |-> result,
                   storeFailed |-> storeFails,
                   calls |-> Attempt("count", storeFails),
                   matched |-> IF storeFails THEN {} ELSE {i.id : i \in Matching(query)}]
       /\ pageLog' = NoPages
       /\ UNCHANGED <<fixedVars, storeVars, seedVars, cardVars, outcomes>>

\* Variation: the amount divided by 100, as in the single-invoice view.
TransformedInvoice_Divided(inv) ==
    [id |-> inv.id, amount |-> inv.amount \div 100, date |-> inv.date,
     status |-> inv.status,
     name |-> IF CustomerOf(inv) = {} THEN <<>>
              ELSE (CHOOSE c \in CustomerOf(inv) : TRUE).name,
     email |-> IF CustomerOf(inv) = {} THEN <<>>
               ELSE (CHOOSE c \in CustomerOf(inv) : TRUE).email]

\* The row fetchFilteredInvoices returns for an invoice (image_url left out).
TransformedInvoice(inv) ==
    [id |-> inv.id, amount |-> inv.amount, date |-> inv.date, status |-> inv.status,
     name |-> IF CustomerOf(inv) = {} THEN <<>>
              ELSE (CHOOSE c \in CustomerOf(inv) : TRUE).name,
     email |-> IF CustomerOf(inv) = {} THEN <<>>
               ELSE (CHOOSE c \in CustomerOf(inv) : TRUE).email]

\* fetchFilteredInvoices(query, currentPage)
FetchFilteredInvoices(query, currentPage, storeFails) ==
    IF storeFails
    THEN /\ last' = [op |-> "fetchFilteredInvoices", query |-> query,
                     page |-> currentPage,
                     result |-> Catch("Failed to fetch invoices.", StoreError),
                     storeFailed |-> TRUE,
                     calls |-> Attempt("invoices", TRUE), matched |-> {}]
         /\ pageLog' = NoPages
         /\ UNCHANGED <<fixedVars, storeVars, seedVars, cardVars, outcomes>>
    ELSE \E ordered \in DateDescOrders(Matching(query)) :
        LET rows == PageOf(ordered, currentPage)
            ids == [i \in 1..Len(rows) |-> rows[i].id]
            before == IF pageLog.query = query THEN pageLog.pages
                      ELSE [pg \in {} |-> <<>>]
        IN /\ last' = [op |-> "fetchFilteredInvoices", query |-> query,
                       page |-> currentPage,
                       result |-> [outcome |-> "ok",
                                   value |-> [i \in 1..Len(rows) |->
                                                TransformedInvoice(rows[i])]],
                       storeFailed |-> FALSE,
                       calls |-> Attempt("invoices", FALSE),
                       matched |-> {ordered[i].id : i \in 1..Len(ordered)}]
           /\ pageLog' = [query |-> query,
                          pages |-> [pg \in DOMAIN before \cup {currentPage} |->
                                       IF pg = currentPage THEN ids ELSE before[pg]]]
           /\ UNCHANGED <<fixedVars, storeVars, seedVars, cardVars, outcomes>>

(***************************************************************************)
(* data.ts: revenue, latest invoices, customers, the customer table.       *)
(***************************************************************************)
\* The place of a letter in the alphabet, 0 for any other character.
LetterRank(c) ==
    IF \E i \in 1..Len(LowerChars) : LowerChars[i] = ToLower(c)
    THEN CHOOSE i \in 1..Len(LowerChars) : LowerChars[i] = ToLower(c)
    ELSE 0

\* a sorts before b.
RECURSIVE NameBefore(_, _)
NameBefore(a, b) ==
    IF b = <<>> THEN FALSE
    ELSE IF a = <<>> THEN TRUE
    ELSE IF LetterRank(Head(a)) # LetterRank(Head(b))
    THEN LetterRank(Head(a)) < LetterRank(Head(b))
    ELSE NameBefore(Tail(a), Tail(b))

\* ORDER BY name / orderBy: { name: 'asc' }: the sequences that list S with
\* names never falling.
RECURSIVE NameAscOrders(_)
NameAscOrders(S) ==
    IF S = {} THEN {<<>>}
    ELSE LET top == {x \in S : \A y \in S : ~NameBefore(y.name, x.name)}
         IN UNION { { <<x>> \o rest : rest \in NameAscOrders(S \ {x}) } : x \in top }

\* take: 5 / .limit(5)
LatestCount == 5

\* fetchRevenue(): a delay of three seconds, then one call for all the rows.
FetchRevenue(storeFails) ==
    /\ last' = [op |-> "fetchRevenue",
                result |-> IF storeFails
                           THEN Catch("Failed to fetch revenue data.", StoreError)
                           ELSE [outcome |-> "ok", value |-> revenue],
                storeFailed |-> storeFails,
                calls |-> Attempt("revenue", storeFails)]
    /\ pageLog' = NoPages
    /\ UNCHANGED <<fixedVars, storeVars, seedVars, cardVars, outcomes>>

\* Variation: the join is not on the invoice's customer_id.
LatestInvoice_AnyCustomer(inv) ==
    LET c == CHOOSE x \in customers : \A y \in customers : ~NameBefore(y.name, x.name)
    IN [id |-> inv.id, amount |-> inv.amount, name |-> c.name, email |-> c.email,
        image_url |-> c.image_url]

\* The row fetchLatestInvoices returns: amount is the stored value it hands
\* to formatCurrency.
LatestInvoice(inv) ==
    [id |-> inv.id, amount |-> inv.amount,
     name |-> TransformedInvoice(inv).name, email |-> TransformedInvoice(inv).email,
     image_url |-> IF CustomerOf(inv) = {} THEN <<>>
                   ELSE (CHOOSE c \in CustomerOf(inv) : TRUE).image_url]

\* fetchLatestInvoices()
FetchLatestInvoices(storeFails) ==
    IF storeFails
    THEN /\ last' = [op |-> "fetchLatestInvoices",
                     result |-> Catch("Failed to fetch the latest invoices.", StoreError),
                     storeFailed |-> TRUE,
                     calls |-> Attempt("invoices", TRUE)]
         /\ pageLog' = NoPages
         /\ UNCHANGED <<fixedVars, storeVars, seedVars, cardVars, outcomes>>
    ELSE \E ordered \in DateDescOrders(invoices) :
        LET rows == SubSeq(ordered, 1, Min(LatestCount, Len(ordered)))
        IN /\ last' = [op |-> "fetchLatestInvoices",
                       result |-> [outcome |-> "ok",
                                   value |-> [i \in 1..Len(rows) |->
                                                LatestInvoice(rows[i])]],
                       storeFailed |-> FALSE,
                       calls |-> Attempt("invoices", FALSE)]
           /\ pageLog' = NoPages
           /\ UNCHANGED <<fixedVars, storeVars, seedVars, cardVars, outcomes>>

\* fetchCustomers(): id and name of every customer, by name.
FetchCustomers(storeFails) ==
    IF storeFails
    THEN /\ last' = [op |-> "fetchCustomers",
                     result |-> Catch("Failed to fetch all customers.", StoreError),
                     storeFailed |-> TRUE,
                     calls |-> Attempt("customers", TRUE)]
         /\ pageLog' = NoPages
         /\ UNCHANGED <<fixedVars, storeVars, seedVars, cardVars, outcomes>>
    ELSE \E ordered \in NameAscOrders(customers) :
           /\ last' = [op |-> "fetchCustomers",
                       result |-> [outcome |-> "ok",
                                   value |-> [i \in 1..Len(ordered) |->
                                                [id |-> ordered[i].id,
                                                 name |-> ordered[i].name]]],
                       storeFailed |-> FALSE,
                       calls |-> Attempt("customers", FALSE)]
           /\ pageLog' = NoPages
           /\ UNCHANGED <<fixedVars, storeVars, seedVars, cardVars, outcomes>>

\* The WHERE of fetchFilteredCustomers.
CustomerMatches(c, query) ==
    IF variant = "prisma"
    THEN PrismaContains(c.name, query) \/ PrismaContains(c.email, query)
    ELSE DrizzleLike(c.name, query) \/ DrizzleLike(c.email, query)

\* .where(inArray(invoices.customerId, customerIds)) / the invoices relation
\* of the customers selected: one batch for all the ids.
InvoiceBatch(customerIds) == {i \in invoices : i.customer_id \in customerIds}

\* Variation: the whole batch is taken for every customer.
InvoicesOf_WholeBatch(batch, customerId) == batch

\* invoicesByCustomer[customer.id] || [] / customer.invoices
InvoicesOf(batch, customerId) == {i \in batch : i.customer_id = customerId}

\* The row of transformedCustomers for a customer (image_url left out);
\* total_pending and total_paid are the sums handed to formatCurrency.
TransformedCustomer(c, batch) ==
    LET customerInvoices == InvoicesOf(batch, c.id)
    IN [id |-> c.id, name |-> c.name, email |-> c.email,
        total_invoices |-> Cardinality(customerInvoices),
        total_pending |-> SumAmounts({i \in customerInvoices : i.status = Pending}),
        total_paid |-> SumAmounts({i \in customerInvoices : i.status = Paid})]

\* Variation: one store call for the invoices of each customer matched.
CustomerCalls_PerCustomer(matchedIds) ==
    <<"customers">> \o [i \in 1..Cardinality(matchedIds) |-> "invoices"]

\* The store calls of fetchFilteredCustomers that succeed. Prisma: one
\* findMany with the invoices nested. Drizzle: the customers, then
\* if (customerIds.length > 0) the invoices of all of them at once.
CustomerCalls(matchedIds) ==
    IF variant = "prisma" THEN <<"customers">>
    ELSE IF matchedIds = {} THEN <<"customers">>
    ELSE <<"customers", "invoices">>

\* fetchFilteredCustomers(query); failAt is the store call that fails, 0 for none.
FetchFilteredCustomers(query, failAt) ==
    LET matched == {c \in customers : CustomerMatches(c, query)}
        customerIds == {c.id : c \in matched}
        planned == CustomerCalls(customerIds)
    IN /\ failAt <= Len(planned)
       /\ IF failAt > 0
          THEN last' = [op |-> "fetchFilteredCustomers", query |-> query,
                        result |-> Catch("Failed to fetch customer table.", StoreError),
                        storeFailed |-> TRUE,
                        calls |-> SubSeq(planned, 1, failAt - 1)
                                    \o Attempt(planned[failAt], TRUE),
                        batchIds |-> IF failAt = 1 THEN {} ELSE customerIds]
          ELSE \E ordered \in NameAscOrders(matched) :
                 last' = [op |-> "fetchFilteredCustomers", query |-> query,
                          result |-> [outcome |-> "ok",
                                      value |-> [i \in 1..Len(ordered) |->
                                                   TransformedCustomer(ordered[i],
                                                       InvoiceBatch(customerIds))]],
                          storeFailed |-> FALSE,
                          calls |-> planned,
                          batchIds |-> customerIds]
       /\ pageLog' = NoPages
       /\ UNCHANGED <<fixedVars, storeVars, seedVars, cardVars, outcomes>>

(***************************************************************************)
(* db.ts: the client handle.                                               *)
(***************************************************************************)
Envs == {"development", "test", "production"}

\* Most evaluations of db.ts in one process.
MaxEvaluations == 4

\* Variation: the handle is never put on globalThis.
KeepsOnGlobal_Never(e) == FALSE

\* if (process.env.NODE_ENV !== 'production') { globalThis.prisma = prisma }
KeepsOnGlobal(e) == e # "production"

\* db.ts is evaluated (first import; again after a hot reload or from a second
\* bundle): const prisma = globalThis.prisma ?? createPrismaClient().
EvaluateModule ==
    /\ phase = "running"
    /\ Len(moduleHandle) < MaxEvaluations
    /\ LET reused == globalPrisma # <<>>
           prisma == IF reused THEN globalPrisma[1] ELSE created + 1
       IN /\ created' = IF reused THEN created ELSE created + 1
          /\ moduleHandle' = Append(moduleHandle, prisma)
          /\ globalPrisma' = IF KeepsOnGlobal(env) THEN <<prisma>> ELSE globalPrisma
    /\ UNCHANGED <<configVars, storeVars, seedVars, readVars, env, connected, phase, lastUsed>>

\* An operation of the data layer runs on the prisma of the module instance it
\* imported; the client connects on its first query.
RunOperation(m) ==
    /\ phase = "running"
    /\ m \in 1..Len(moduleHandle)
    /\ connected' = connected \cup {moduleHandle[m]}
    /\ lastUsed' = moduleHandle[m]
    /\ UNCHANGED <<configVars, storeVars, seedVars, readVars, env, globalPrisma, created,
                   moduleHandle, phase>>

\* The event loop runs empty: 'beforeExit' is emitted.
BeforeExit ==
    /\ phase = "running"
    /\ phase' = "exiting"
    /\ UNCHANGED <<configVars, storeVars, seedVars, readVars, env, globalPrisma, created,
                   moduleHandle, connected, lastUsed>>

\* process.on('beforeExit', async () => { await prisma.$disconnect() }), the
\* listener registered by the m-th evaluation.
Disconnect(m) ==
    /\ phase = "exiting"
    /\ m \in 1..Len(moduleHandle)
    /\ moduleHandle[m] \in connected
    /\ connected' = connected \ {moduleHandle[m]}
    /\ UNCHANGED <<configVars, storeVars, seedVars, readVars, env, globalPrisma, created,
                   moduleHandle, phase, lastUsed>>

(***************************************************************************)
(* Stores and inputs of the read operations.                               *)
(***************************************************************************)
\* Most invoices in a store the read operations run on, and the last page asked.
MaxQInvoices == 7
MaxPage == 2

QCustomers ==
    { [id |-> "c1", name |-> <<"L", "e", "e">>, email |-> <<"l", "@", "x">>,
       image_url |-> <<"/", "1">>],
      [id |-> "c2", name |-> <<"A", "m", "y">>, email |-> <<"a", "@", "x">>,
       image_url |-> <<"/", "2">>],
      [id |-> "c3", name |-> <<"B", "o">>, email |-> <<"b", "@", "x">>,
       image_url |-> <<"/", "3">>] }

\* The i-th invoice: customers in turn, statuses alternating, dates falling
\* with i except that the sixth and the seventh are of the same day.
QInvoice(i) ==
    [id |-> i,
     customer_id |-> CASE i % 3 = 1 -> "c1" [] i % 3 = 2 -> "c2" [] OTHER -> "c3",
     amount |-> IF i = 3 THEN 500 ELSE 1000 * i + 95,
     status |-> IF i % 2 = 0 THEN Paid ELSE Pending,
     date |-> IF i = 7 THEN 100 - 6 ELSE 100 - i]

Queries ==
    { <<>>, <<"l", "e", "e">>, <<"P", "A", "I", "D">>, <<"p", "a", "i", "d">>,
      <<"5", "0", "0">>, <<"5", "0", "0", "a">>, <<"z">> }

(***************************************************************************)
(* Specifications.                                                         *)
(***************************************************************************)
SeedInit ==
    /\ status = [p \in Procs |-> "idle"]
    /\ err = [p \in Procs |-> NoErr]
    /\ failLog = [p \in Procs |-> <<>>]
    /\ taskPc = [p \in Procs |-> [t \in Tasks |-> "idle"]]
    /\ invPc = [p \in Procs |-> "idle"]
    /\ invSeen = [p \in Procs |-> -1]
    /\ invInserted = [p \in Procs |-> 0]
    /\ invRet = [p \in Procs |-> -1]
    /\ startCounts = [p \in Procs |-> RowCounts]
    /\ afterDone = [p \in Procs |-> FALSE]
    /\ response = [p \in Procs |-> NoResponse]

CardInit ==
    /\ cardState = "idle"
    /\ cardPc = [q \in CardQueries |-> "idle"]
    /\ cardVal = [q \in CardQueries |-> -1]
    /\ cardAfter = [q \in CardQueries |-> {}]
    /\ cardOut = [outcome |-> "none"]

QueryInit ==
    /\ last = [op |-> "none"]
    /\ outcomes = {}
    /\ pageLog = NoPages

\* A process that has not imported db.ts yet.
DbInit ==
    /\ env \in Envs
    /\ globalPrisma = <<>>
    /\ created = 0
    /\ moduleHandle = <<>>
    /\ connected = {}
    /\ phase = "running"
    /\ lastUsed = 0

\* A process that has evaluated db.ts once; seed.ts and data.ts do not read
\* NODE_ENV.
DbLoaded ==
    /\ env = "production"
    /\ globalPrisma = <<>>
    /\ created = 1
    /\ moduleHandle = <<1>>
    /\ connected = {}
    /\ phase = "running"
    /\ lastUsed = 0

\* A store the seeding may find.
SeedStoreInit ==
    \E st \in InitialStores :
        /\ users = st.users
        /\ customers = st.customers
        /\ revenue = st.revenue
        /\ invoices = { PreInvoice(n) : n \in 1..st.pre }
        /\ nextId = st.pre + 1

SeedStep(p) ==
    \/ SeedDatabase(p)
    \/ SeedCustomers(p)
    \/ SeedRevenue(p)
    \/ SeedInvoices(p)
    \/ InvoiceCount(p)
    \/ InvoiceInsert(p)
    \/ InvoiceFail(p)
    \/ Respond(p)
    \/ \E t \in Tasks :
          \/ HashDone(p, t)
          \/ Upsert(p, t)
          \/ Select(p, t)
          \/ Insert(p, t)
          \/ TaskFail(p, t)

\* Seeding: two invocations of seedDatabase, interleaved in any way.
Init == variant \in Variants /\ fkEnforced \in BOOLEAN /\ SeedStoreInit /\ SeedInit /\ CardInit /\ QueryInit /\ DbLoaded

Next == \E p \in Procs : SeedStep(p)

Spec == Init /\ [][Next]_vars

CardStep ==
    \/ FetchCardData
    \/ CardJoin
    \/ \E q \in CardQueries :
          \/ CardQueryReturn(q)
          \/ CardQueryFail(q)

\* fetchCardData, while one invocation of seedDatabase runs.
NextCard == SeedStep("A") \/ CardStep

SpecCard == Init /\ [][NextCard]_vars

\* The read operations, on a store of up to MaxQInvoices invoices.
InitQuery ==
    /\ variant \in Variants
    /\ fkEnforced = TRUE
    /\ users = {}
    /\ revenue = {}
    /\ customers = QCustomers
    /\ \E n \in 0..MaxQInvoices :
         /\ invoices = { QInvoice(i) : i \in 1..n }
         /\ nextId = n + 1
    /\ SeedInit /\ CardInit /\ QueryInit /\ DbLoaded

NextQuery ==
    \E storeFails \in BOOLEAN :
        \/ \E id \in 1..(Cardinality(invoices) + 1) : FetchInvoiceById(id, storeFails)
        \/ \E query \in Queries : FetchInvoicesPages(query, storeFails)
        \/ \E query \in Queries : \E pg \in 1..MaxPage :
              FetchFilteredInvoices(query, pg, storeFails)

SpecQuery == InitQuery /\ [][NextQuery]_vars

\* The store of the scenario: one customer, a paid invoice of 1000 and a
\* pending one of 500.
ExampleCustomers ==
    { [id |-> "c1", name |-> <<"L", "e", "e">>, email |-> <<"l", "@", "x">>,
       image_url |-> <<"/", "1">>] }

ExampleInvoices ==
    { [id |-> 1, customer_id |-> "c1", amount |-> 1000, status |-> Paid, date |-> 99],
      [id |-> 2, customer_id |-> "c1", amount |-> 500, status |-> Pending, date |-> 98] }

ReadStores ==
    { [customers |-> QCustomers, invoices |-> { QInvoice(i) : i \in 1..n }] :
        n \in 0..MaxQInvoices }
    \cup { [customers |-> ExampleCustomers, invoices |-> ExampleInvoices] }

\* Every read operation of the query layer, on a store that stays as it is.
InitRead ==
    /\ variant \in Variants
    /\ fkEnforced = TRUE
    /\ users = {}
    /\ revenue = PlaceholderRevenue
    /\ \E st \in ReadStores :
         /\ customers = st.customers
         /\ invoices = st.invoices
         /\ nextId = Cardinality(st.invoices) + 1
    /\ SeedInit /\ CardInit /\ QueryInit /\ DbLoaded

ReadStep ==
    \/ \E storeFails \in BOOLEAN :
          \/ FetchRevenue(storeFails)
          \/ FetchLatestInvoices(storeFails)
          \/ FetchCustomers(storeFails)
    \/ \E query \in Queries : \E failAt \in 0..2 : FetchFilteredCustomers(query, failAt)

\* One request at a time: no read operation changes what another reads, so
\* requests in flight together behave as one after the other.
NextRead ==
    \/ cardState = "idle" /\ (NextQuery \/ ReadStep)
    \/ last.op = "none" /\ CardStep

SpecRead == InitRead /\ [][NextRead]_vars

\* The client handle over the life of one process.
InitDb ==
    /\ variant = "prisma"
    /\ fkEnforced = TRUE
    /\ users = {} /\ customers = {} /\ revenue = {} /\ invoices = {} /\ nextId = 1
    /\ SeedInit /\ CardInit /\ QueryInit /\ DbInit

NextDb ==
    \/ EvaluateModule
    \/ BeforeExit
    \/ \E m \in 1..MaxEvaluations :
          \/ RunOperation(m)
          \/ Disconnect(m)

SpecDb == InitDb /\ [][NextDb]_vars

\* Two invocations of seedDatabase on an empty store, interleaved in any way,
\* every store call answered by the store: no call fails for a reason of its
\* own (connectivity, timeout).
InitRace ==
    /\ variant \in Variants
    /\ fkEnforced \in BOOLEAN
    /\ users = {} /\ customers = {} /\ revenue = {} /\ invoices = {} /\ nextId = 1
    /\ SeedInit /\ CardInit /\ QueryInit /\ DbLoaded

AnsweredStep(p) ==
    \/ SeedDatabase(p)
    \/ SeedCustomers(p)
    \/ SeedRevenue(p)
    \/ SeedInvoices(p)
    \/ InvoiceCount(p)
    \/ InvoiceInsert(p)
    \/ Respond(p)
    \/ \E t \in Tasks :
          \/ HashDone(p, t)
          \/ Upsert(p, t)
          \/ Select(p, t)
          \/ Insert(p, t)

NextRace == \E p \in Procs : AnsweredStep(p)

SpecRace == InitRace /\ [][NextRace]_vars

\* The seeding with its scheduling: a step of an invocation that has started
\* and can be taken is taken in the end. Every store call and every hash
\* issued returns or fails, and the event loop runs every continuation that
\* is ready.
SpecLive == Init /\ [][Next]_vars
            /\ \A p \in Procs : WF_vars(status[p] # "idle" /\ SeedStep(p))

(***************************************************************************)
(* Properties of the seeding.                                              *)
(***************************************************************************)
AllDone(p, s) == \A t \in TasksOf(s) : taskPc[p][t] = "done"
Started(p, s) == \E t \in TasksOf(s) : taskPc[p][t] # "idle"
StageIndex(s) == CHOOSE i \in 1..Len(Stages) : Stages[i] = s

\* C1: a seedDatabase run that starts after another run has completed, and
\* completes, leaves the row counts of users, customers, revenue and invoices
\* as they were when it started.
C1_SecondRunKeepsCounts ==
    \A p \in Procs :
        (afterDone[p] /\ status[p] = "completed") => RowCounts = startCounts[p]

C1_Witness ==
    \E p \in Procs : \E q \in Procs \ {p} :
        /\ afterDone[p] /\ status[p] = "completed"
        /\ invInserted[q] > 0 /\ invSeen[p] > 0

\* C2: the stages run in the order users, customers, revenue, invoices, and a
\* stage has issued a store call only if every task, hence every store call,
\* of the stage before it has completed.
C2_StagesInOrder ==
    \A p \in Procs :
        /\ Started(p, "users") => status[p] # "idle"
        /\ Started(p, "customers") => AllDone(p, "users")
        /\ Started(p, "revenue") => AllDone(p, "customers")
        /\ invPc[p] # "idle" => AllDone(p, "revenue")

C2_Witness ==
    \E p \in Procs : invPc[p] = "count" /\ AllDone(p, "revenue") /\ AllDone(p, "users")

\* C3: an invocation of seedInvoices inserts rows only if the count it read was
\* zero; if it read a count above zero it inserts nothing and returns an empty
\* result.
C3_InvoicesOnlyWhenEmpty ==
    \A p \in Procs :
        /\ invInserted[p] > 0 => invSeen[p] = 0
        /\ invSeen[p] > 0 => /\ invInserted[p] = 0
                             /\ invPc[p] = "done"
                             /\ invRet[p] = 0

C3_Witness ==
    \E p \in Procs : \E q \in Procs \ {p} :
        /\ invSeen[p] > 0 /\ invRet[p] = 0
        /\ invSeen[q] = 0 /\ invInserted[q] = Len(PlaceholderInvoices)

\* C4: once a call of a stage has failed, seedDatabase has rejected with the
\* first failure, and no task of a later stage is ever started.
C4_FirstFailureAborts ==
    \A p \in Procs :
        failLog[p] # <<>> =>
            /\ status[p] = "rejected"
            /\ err[p] = failLog[p][1]
            /\ \A s \in RowStages :
                 StageIndex(s) > StageIndex(err[p][1]) => ~Started(p, s)
            /\ err[p][1] # "invoices" => invPc[p] = "idle"

C4_Witness ==
    \E p \in Procs :
        /\ status[p] = "rejected" /\ Len(failLog[p]) = 2
        /\ err[p][1] = "customers" /\ err[p] # failLog[p][2]

(***************************************************************************)
(* Properties of the read operations.                                      *)
(***************************************************************************)
\* C5: in fetchCardData every one of the four sub-queries is issued by the
\* time the operation waits for them, and none is issued after another one
\* has completed.
C5_AllIssuedBeforeWaiting ==
    /\ cardState # "idle" => \A q \in CardQueries : cardPc[q] # "idle"
    /\ \A q \in CardQueries : cardAfter[q] = {}

\* C6: fetchInvoiceById never gives, for an id that matches no row, the
\* outcome it gives when the store call itself fails.
C6_NotFoundDistinct ==
    \A a \in outcomes : \A b \in outcomes :
        (a[1] = "notfound" /\ b[1] = "store") => a[2] # b[2]

\* C7: for the id of an existing invoice, and the store call succeeding,
\* fetchInvoiceById returns the row's id, customer id and status, and an
\* amount that times 100 is the stored amount.
C7_ByIdReturnsInvoice ==
    (last.op = "fetchInvoiceById" /\ ~last.storeFailed) =>
        \A inv \in invoices :
            inv.id = last.id =>
                /\ last.result.outcome = "ok"
                /\ last.result.value.id = inv.id
                /\ last.result.value.customer_id = inv.customer_id
                /\ last.result.value.status = inv.status
                /\ last.result.value.amount.hundredths \in 0..99
                /\ 100 * last.result.value.amount.units
                     + last.result.value.amount.hundredths = inv.amount

C7_Witness ==
    /\ last.op = "fetchInvoiceById"
    /\ last.result.outcome = "ok"
    /\ last.result.value.amount.hundredths # 0
    /\ last.result.value.status = Paid

Range(seq) == {seq[i] : i \in 1..Len(seq)}

RECURSIVE ConcatPages(_, _)
ConcatPages(pages, n) ==
    IF n = 0 THEN <<>> ELSE ConcatPages(pages, n - 1) \o pages[n]

\* C8: the pages fetched for one query on an unchanged store have at most 6
\* rows each and pairwise disjoint ids, and once pages 1..fetchInvoicesPages
\* are all fetched, put end to end they are the whole filtered result in an
\* order of falling dates, each invoice once.
C8_PagesPartition ==
    LET pages == pageLog.pages
        total == TotalPages(Cardinality(Matching(pageLog.query)))
    IN /\ \A pg \in DOMAIN pages : Len(pages[pg]) <= 6
       /\ \A pg1 \in DOMAIN pages : \A pg2 \in DOMAIN pages :
            pg1 # pg2 => Range(pages[pg1]) \cap Range(pages[pg2]) = {}
       /\ (total >= 1 /\ 1..total \subseteq DOMAIN pages) =>
            \E ordered \in DateDescOrders(Matching(pageLog.query)) :
                ConcatPages(pages, total) = [i \in 1..Len(ordered) |-> ordered[i].id]

\* C9: the page count P that fetchInvoicesPages returns and the number N of
\* invoices matching the query satisfy P * 6 >= N > (P - 1) * 6.
C9_CeilingLaw ==
    (last.op = "fetchInvoicesPages" /\ last.result.outcome = "ok") =>
        LET N == Cardinality(Matching(last.query))
            P == last.result.value
        IN P * 6 >= N /\ N > (P - 1) * 6

C9_Witness ==
    /\ last.op = "fetchInvoicesPages"
    /\ last.result.outcome = "ok"
    /\ last.result.value = 2
    /\ Cardinality(Matching(last.query)) = 7

\* str contains sub, letter case ignored
ContainsIgnoringCase(str, sub) == Contains(LowerCase(str), LowerCase(sub))

\* C10: every invoice whose customer name, customer email or status contains
\* the query, letter case ignored, is in the filtered result of
\* fetchFilteredInvoices and fetchInvoicesPages.
C10_CaseInsensitiveMatch ==
    (last.op \in {"fetchFilteredInvoices", "fetchInvoicesPages"}
       /\ last.result.outcome = "ok") =>
        \A inv \in invoices :
            ( \/ \E c \in CustomerOf(inv) : ContainsIgnoringCase(c.name, last.query)
              \/ \E c \in CustomerOf(inv) : ContainsIgnoringCase(c.email, last.query)
              \/ ContainsIgnoringCase(inv.status, last.query) )
            => inv.id \in last.matched

(***************************************************************************)
(* Properties of the amount clause.                                        *)
(***************************************************************************)
\* str is an integer literal from its first character to its last: an
\* optional sign, then digits only.
IsIntegerLiteral(str) ==
    LET body == IF str # <<>> /\ Head(str) \in {"-", "+"} THEN Tail(str) ELSE str
    IN body # <<>> /\ \A i \in 1..Len(body) : IsDigit(body[i])

\* The invoice has the query in its customer's name or email or in its status,
\* letter case ignored.
TextHasQuery(inv, query) ==
    \/ \E c \in CustomerOf(inv) : ContainsIgnoringCase(c.name, query)
    \/ \E c \in CustomerOf(inv) : ContainsIgnoringCase(c.email, query)
    \/ ContainsIgnoringCase(inv.status, query)

\* C11: in fetchFilteredInvoices and fetchInvoicesPages a query that is not
\* an integer literal from end to end raises no error and matches no invoice
\* through the amount clause, so every invoice matched has the query in its
\* name, email or status; a query that is the integer n matches, besides,
\* exactly the invoices whose stored amount is n.
C11_AmountOnlyForIntegers ==
    (last.op \in {"fetchFilteredInvoices", "fetchInvoicesPages"} /\ ~last.storeFailed) =>
        /\ last.result.outcome = "ok"
        /\ \A inv \in invoices :
              (inv.id \in last.matched /\ ~TextHasQuery(inv, last.query)) =>
                  /\ IsIntegerLiteral(last.query)
                  /\ inv.amount = ParseInt(last.query)[1]
        /\ IsIntegerLiteral(last.query) =>
              \A inv \in invoices :
                  inv.amount = ParseInt(last.query)[1] => inv.id \in last.matched

(***************************************************************************)
(* Properties of the customer table.                                       *)
(***************************************************************************)
\* The rows a successful fetchFilteredCustomers returned.
ReturnedCustomers == Range(last.result.value)

\* The total_invoices of the rows of S, added up.
RECURSIVE SumTotalInvoices(_)
SumTotalInvoices(S) ==
    IF S = {} THEN 0
    ELSE LET row == CHOOSE y \in S : TRUE
         IN row.total_invoices + SumTotalInvoices(S \ {row})

\* C12: fetchFilteredCustomers("") returns every customer; for every query
\* each returned customer has total_invoices equal to the number of invoices
\* with its id as customer_id, total_pending and total_paid equal to the sums
\* of its pending and paid amounts in cents; no customer is returned twice
\* and the counts add up to the number of invoices of the returned customers.
C12_CustomerTotals ==
    (last.op = "fetchFilteredCustomers" /\ ~last.storeFailed) =>
        /\ last.result.outcome = "ok"
        /\ last.query = <<>> => {row.id : row \in ReturnedCustomers} = {c.id : c \in customers}
        /\ \A row \in ReturnedCustomers :
              LET own == {i \in invoices : i.customer_id = row.id}
              IN /\ row.total_invoices = Cardinality(own)
                 /\ row.total_pending = SumAmounts({i \in own : i.status = Pending})
                 /\ row.total_paid = SumAmounts({i \in own : i.status = Paid})
        /\ Cardinality({row.id : row \in ReturnedCustomers}) = Len(last.result.value)
        /\ SumTotalInvoices(ReturnedCustomers)
              = Cardinality({i \in invoices :
                               i.customer_id \in {row.id : row \in ReturnedCustomers}})

\* Every customer is returned, two of them with invoices of both statuses.
C12_Witness ==
    /\ last.op = "fetchFilteredCustomers" /\ ~last.storeFailed
    /\ last.query = <<>>
    /\ Len(last.result.value) = Cardinality(QCustomers)
    /\ Cardinality({row \in ReturnedCustomers :
                      row.total_pending > 0 /\ row.total_paid > 0}) >= 2

(***************************************************************************)
(* Properties of fetchCardData on a store that stays as it is.             *)
(***************************************************************************)
\* C13: fetchCardData returns numberOfInvoices equal to the number of invoice
\* rows, numberOfCustomers equal to the number of customer rows, and paid and
\* pending totals equal, in cents, to the sums of the amounts of the paid and
\* of the pending invoices, 0 when there is none; one customer with invoices
\* (1000, paid) and (500, pending) gives 2, 1, 1000 and 500.
C13_CardValues ==
    cardState = "returned" =>
        LET paid == {i \in invoices : i.status = Paid}
            pending == {i \in invoices : i.status = Pending}
        IN /\ cardOut.outcome = "ok"
           /\ cardOut.numberOfInvoices = Cardinality(invoices)
           /\ cardOut.numberOfCustomers = Cardinality(customers)
           /\ cardOut.totalPaidInvoices = SumAmounts(paid)
           /\ cardOut.totalPendingInvoices = SumAmounts(pending)
           /\ paid = {} => cardOut.totalPaidInvoices = 0
           /\ pending = {} => cardOut.totalPendingInvoices = 0
           /\ (customers = ExampleCustomers /\ invoices = ExampleInvoices) =>
                 /\ cardOut.numberOfInvoices = 2
                 /\ cardOut.numberOfCustomers = 1
                 /\ cardOut.totalPaidInvoices = 1000
                 /\ cardOut.totalPendingInvoices = 500

\* The call has returned on the store of the scenario.
C13_Witness ==
    /\ cardState = "returned"
    /\ customers = ExampleCustomers /\ invoices = ExampleInvoices
    /\ cardOut.totalPaidInvoices = 1000 /\ cardOut.totalPendingInvoices = 500

(***************************************************************************)
(* Properties of the amounts the read operations return.                   *)
(***************************************************************************)
\* The amount stored for the invoice of this id.
StoredAmount(id) == (CHOOSE i \in invoices : i.id = id).amount

\* C14: the division of amount by 100 happens in fetchInvoiceById only:
\* fetchFilteredInvoices returns, for every store, query and page, each
\* invoice's amount as stored, in cents; fetchLatestInvoices,
\* fetchFilteredCustomers and fetchCardData work on the stored cents.
C14_CentsOutsideDetailView ==
    /\ (last.op \in {"fetchFilteredInvoices", "fetchLatestInvoices"} /\ ~last.storeFailed) =>
          \A k \in 1..Len(last.result.value) :
              last.result.value[k].amount = StoredAmount(last.result.value[k].id)
    /\ (last.op = "fetchFilteredCustomers" /\ ~last.storeFailed) =>
          \A row \in Range(last.result.value) :
              row.total_pending + row.total_paid
                  = SumAmounts({i \in invoices : i.customer_id = row.id})
    /\ cardState = "returned" =>
          cardOut.totalPaidInvoices + cardOut.totalPendingInvoices = SumAmounts(invoices)
    /\ (last.op = "fetchInvoiceById" /\ last.result.outcome = "ok") =>
          /\ 100 * last.result.value.amount.units + last.result.value.amount.hundredths
                = StoredAmount(last.id)
          /\ last.result.value.amount.hundredths \in 0..99

\* A page of fetchFilteredInvoices with an amount of more than 100 cents that
\* is no whole number of hundreds.
C14_Witness ==
    /\ last.op = "fetchFilteredInvoices" /\ ~last.storeFailed
    /\ \E k \in 1..Len(last.result.value) :
          /\ last.result.value[k].amount > 100
          /\ last.result.value[k].amount % 100 # 0

(***************************************************************************)
(* Properties of the store calls of fetchFilteredCustomers.                *)
(***************************************************************************)
\* How many times the call named is in the sequence of calls issued.
CallCount(calls, name) == Cardinality({k \in 1..Len(calls) : calls[k] = name})

\* C15: fetchFilteredCustomers fetches the invoices of the customers matched as
\* one batch filtered by the set of their ids: whatever the number of
\* customers matched, it issues one call for the customers and at most one for
\* the invoices, the latter after the former, and the rows it returns are
\* those of the ids the batch was asked for.
C15_SingleBatch ==
    last.op = "fetchFilteredCustomers" =>
        /\ CallCount(last.calls, "customers") = 1
        /\ CallCount(last.calls, "invoices") <= 1
        /\ Len(last.calls) <= 2
        /\ last.calls[1] = "customers"
        /\ ~last.storeFailed =>
              last.batchIds = {row.id : row \in Range(last.result.value)}

\* Three customers matched, their invoices fetched by a second call.
C15_Witness ==
    /\ last.op = "fetchFilteredCustomers" /\ ~last.storeFailed
    /\ Cardinality(last.batchIds) = 3
    /\ last.calls = <<"customers", "invoices">>
    /\ \A row \in Range(last.result.value) : row.total_invoices >= 2

(***************************************************************************)
(* Properties of the failures of the read operations.                      *)
(***************************************************************************)
\* throw new Error(...) of each operation's catch.
FailureMessage ==
    [fetchRevenue |-> "Failed to fetch revenue data.",
     fetchLatestInvoices |-> "Failed to fetch the latest invoices.",
     fetchCardData |-> "Failed to fetch card data.",
     fetchFilteredInvoices |-> "Failed to fetch invoices.",
     fetchInvoicesPages |-> "Failed to fetch total number of invoices.",
     fetchInvoiceById |-> "Failed to fetch invoice.",
     fetchCustomers |-> "Failed to fetch all customers.",
     fetchFilteredCustomers |-> "Failed to fetch customer table."]

\* The operation whose store call failed has rejected with its own message,
\* having issued the failed call once.
RejectsWithOwnError ==
    /\ \A a, b \in DOMAIN FailureMessage : a # b => FailureMessage[a] # FailureMessage[b]
    /\ (last.op # "none" /\ last.storeFailed) =>
          /\ last.result = [outcome |-> "error", message |-> FailureMessage[last.op]]
          /\ CallCount(last.calls, last.calls[Len(last.calls)]) = 1
    /\ (\E q \in CardQueries : cardPc[q] = "failed") =>
          /\ cardState = "rejected"
          /\ cardOut = [outcome |-> "error", message |-> FailureMessage.fetchCardData]

\* A sub-query of fetchCardData that has failed is not issued again.
CardNoRetry == \A q \in CardQueries : cardPc[q] = "failed" => cardPc'[q] = "failed"

\* C16: each read operation of the query layer (fetchRevenue,
\* fetchLatestInvoices, fetchCardData, fetchFilteredInvoices,
\* fetchInvoicesPages, fetchInvoiceById, fetchCustomers,
\* fetchFilteredCustomers), when its store call fails, rejects with the error
\* message of that operation, and the failed call is issued once, never again.
C16_OwnErrorNoRetry == []RejectsWithOwnError /\ [][CardNoRetry]_vars

\* fetchFilteredCustomers has rejected on the failure of its second call.
C16_Witness ==
    /\ last.op = "fetchFilteredCustomers" /\ last.storeFailed
    /\ last.calls = <<"customers", "invoices">>
    /\ last.result.message = "Failed to fetch customer table."

C18_InvoicesReferenceCustomers ==
    \A i \in invoices : \E c \in customers : c.id = i.customer_id

\* The placeholder invoices are in a store without the foreign key, one run
\* having completed and the other having failed.
C18_Witness ==
    /\ ~fkEnforced
    /\ Cardinality(invoices) = Len(PlaceholderInvoices)
    /\ \E p, q \in Procs : status[p] = "completed" /\ status[q] = "rejected"

\* C19: in every state reached by any number of seedDatabase runs, one after
\* the other or interleaved, no two users rows share an id or an email and no
\* two revenue rows share a month.
C19_KeysUnique ==
    /\ \A r1, r2 \in users : r1 # r2 => (r1.id # r2.id /\ r1.email # r2.email)
    /\ \A r1, r2 \in revenue : r1 # r2 => r1.month # r2.month

\* Two interleaved runs have both tried to write one revenue row: one wrote
\* it, the write of the other failed.
C19_Witness ==
    /\ \E t \in TasksOf("revenue") :
          /\ taskPc["A"][t] = "done"
          /\ taskPc["B"][t] = "failed"
          /\ \E k \in 1..Len(failLog["B"]) : failLog["B"][k] = t
    /\ revenue # {}
    /\ users # {}

\* No step removes or alters a row of users, customers or revenue.
RowsKept == users \subseteq users' /\ customers \subseteq customers' /\ revenue \subseteq revenue'

\* C20: re-seeding is a no-op on the rows that exist: when seedUsers,
\* seedCustomers or seedRevenue finds a row of the same key (id, id, month) it
\* leaves every attribute of that row as it is, the stored password hash
\* included, even where the placeholder data differs from the stored row.
C20_ExistingRowsUntouched == [][RowsKept]_vars

\* A run has completed on a store whose user, customer and revenue rows have
\* the placeholder keys and other attributes, and they are as they were.
C20_Witness ==
    /\ \E p \in Procs : status[p] = "completed"
    /\ StaleUser \in users
    /\ \E u \in PlaceholderUsers :
          /\ u.id = StaleUser.id /\ u.email # StaleUser.email
          /\ Hash(u.password) # StaleUser.password
    /\ StaleCustomer \in customers
    /\ StaleRevenue \in revenue

\* The users rows the store held before any seeding.
InitialUsers == {StaleUser, ClashUser}

\* C21: every users row written by seedUsers holds the hash of the
\* placeholder password of its user, computed by the task that wrote the row
\* before its write was issued; in no reachable state does a users row hold a
\* plaintext password.
C21_PasswordsHashed ==
    /\ \A u \in users : u.password.alg = "bcrypt"
    /\ \A u \in users \ InitialUsers :
          \E row \in PlaceholderUsers :
              /\ u.id = row.id /\ u.email = row.email
              /\ u.password = Hash(row.password)
              /\ u.password # row.password
    /\ \A t \in TasksOf("users") :
          (\E u \in users \ InitialUsers : u.id = t[2]) =>
              \E q \in Procs : taskPc[q][t] = "done"

\* A run has written the placeholder user, found absent.
C21_Witness ==
    /\ users \ InitialUsers # {}
    /\ \E q \in Procs : \A t \in TasksOf("users") : taskPc[q][t] = "done"

(***************************************************************************)
(* Properties of fetchLatestInvoices.                                      *)
(***************************************************************************)
\* The invoice row of this id.
StoredInvoice(id) == CHOOSE i \in invoices : i.id = id

\* C22: fetchLatestInvoices returns min(5, number of invoices) rows, of
\* different invoices, by date descending, each with the name, email and
\* image reference of the invoice's own customer, and no invoice left out
\* has a date later than that of a returned one.
C22_LatestInvoices ==
    (last.op = "fetchLatestInvoices" /\ ~last.storeFailed) =>
        LET rows == last.result.value
            ids == {rows[k].id : k \in 1..Len(rows)}
        IN /\ last.result.outcome = "ok"
           /\ Len(rows) = Min(5, Cardinality(invoices))
           /\ Cardinality(ids) = Len(rows)
           /\ ids \subseteq {i.id : i \in invoices}
           /\ \A k \in 1..(Len(rows) - 1) :
                 StoredInvoice(rows[k].id).date >= StoredInvoice(rows[k + 1].id).date
           /\ \A k \in 1..Len(rows) :
                 \E c \in customers :
                    /\ c.id = StoredInvoice(rows[k].id).customer_id
                    /\ rows[k].name = c.name
                    /\ rows[k].email = c.email
                    /\ rows[k].image_url = c.image_url
           /\ \A i \in invoices :
                 i.id \notin ids => \A k \in 1..Len(rows) :
                                       i.date <= StoredInvoice(rows[k].id).date

\* Five rows out of more, of the three customers.
C22_Witness ==
    /\ last.op = "fetchLatestInvoices" /\ ~last.storeFailed
    /\ Len(last.result.value) = 5
    /\ Cardinality(invoices) > 5
    /\ Cardinality({last.result.value[k].name : k \in 1..5}) = 3

(***************************************************************************)
(* Properties of the writes of the seeding.                                *)
(***************************************************************************)
\* The rows of the stages an invocation had completed when it failed are in
\* the store.
EarlierStagesStay ==
    \A p \in Procs :
        status[p] = "rejected" =>
            \A s \in RowStages :
                StageIndex(s) < StageIndex(err[p][1]) =>
                    \A t \in TasksOf(s) : RowExists(t)

\* The tables a step changes.
TablesWritten ==
    {s \in {"users"} : users' # users} \cup {s \in {"customers"} : customers' # customers}
    \cup {s \in {"revenue"} : revenue' # revenue}
    \cup {s \in {"invoices"} : invoices' # invoices}

\* A step writes to one table at most, and the step in which an invocation
\* rejects takes nothing back.
OneTablePerWrite ==
    /\ Cardinality(TablesWritten) <= 1
    /\ (\E p \in Procs : status[p] # "rejected" /\ status'[p] = "rejected") =>
          UNCHANGED storeVars

\* C23: seeding uses no transaction spanning stages: when a later stage of
\* seedDatabase fails, the rows written by the stages already completed stay
\* in the store, nothing is rolled back, and each write touches one table.
C23_NoTransaction == []EarlierStagesStay /\ [][OneTablePerWrite]_vars

\* An invocation has failed in its last stage on a store that was empty: the
\* users, customers and revenue rows it wrote are there, the invoices are not.
C23_Witness ==
    \E p \in Procs :
        /\ status[p] = "rejected" /\ err[p][1] = "invoices"
        /\ \A q \in Procs \ {p} : status[q] = "idle"
        /\ Cardinality(users) = Cardinality(PlaceholderUsers)
        /\ users \cap InitialUsers = {}
        /\ Cardinality(customers) = Cardinality(PlaceholderCustomers)
        /\ revenue = PlaceholderRevenue
        /\ invoices = {}

(***************************************************************************)
(* Properties of the seed route.                                           *)
(***************************************************************************)
\* C28: the GET handler of the seed route answers with the success message
\* (status 200) exactly when seedDatabase completed and with status 500 and
\* an error body exactly when it rejected; it answers nothing before, never
\* success after a failed stage, and the failure does not leave the handler.
C28_ResponseMatchesOutcome ==
    \A p \in Procs :
        /\ response[p] # NoResponse => status[p] \in {"completed", "rejected"}
        /\ response[p].status = 200 <=>
              /\ response[p] # NoResponse
              /\ status[p] = "completed"
              /\ response[p].key = "message"
              /\ failLog[p] = <<>>
        /\ response[p].status = 500 <=>
              /\ response[p] # NoResponse
              /\ status[p] = "rejected"
              /\ response[p].key = "error"
        /\ response[p].status \in {0, 200, 500}

\* Of two requests one has been answered 200, the other 500.
C28_Witness ==
    \E p, q \in Procs : response[p].status = 200 /\ response[q].status = 500

(***************************************************************************)
(* Properties of two interleaved invocations on an empty store.            *)
(***************************************************************************)
\* C24: when two seedDatabase invocations interleave in any way on an empty
\* invoices table, the table holds the placeholder invoices at most once,
\* and once both have completed its row count is the number of placeholder
\* invoices.
C24_InvoicesSeededOnce ==
    /\ Cardinality(invoices) <= Len(PlaceholderInvoices)
    /\ (\A p \in Procs : status[p] = "completed") =>
          Cardinality(invoices) = Len(PlaceholderInvoices)

\* C25: when two seedDatabase invocations interleave in any way on an empty
\* store, neither fails: no insert of a users, customers or revenue row found
\* absent is refused because the other invocation wrote the row meanwhile.
C25_NeitherFails ==
    \A p \in Procs :
        /\ status[p] # "rejected"
        /\ \A t \in Tasks : taskPc[p][t] # "failed"

(***************************************************************************)
(* Properties of a rejected invocation.                                    *)
(***************************************************************************)
\* This step is a write of invocation p that takes effect in the store.
WritesInStep(p) ==
    \/ \E t \in Tasks :
          /\ taskPc[p][t] \in InFlight /\ taskPc'[p][t] = "done"
          /\ Table(t[1]) # Table(t[1])'
    \/ invPc[p] = "insert" /\ invPc'[p] = "done" /\ invoices' # invoices

\* C26: once a seedDatabase invocation has rejected it writes nothing more:
\* when one of the per-row writes of a stage fails, none of the other writes
\* of that stage takes effect after the failure was reported to the caller.
C26_NoWriteAfterRejection ==
    [][\A p \in Procs : status[p] = "rejected" => ~WritesInStep(p)]_vars

(***************************************************************************)
(* Properties of fetchCardData while the store is written.                 *)
(***************************************************************************)
\* C27: the four values one fetchCardData call returns describe one single
\* store state, even when a seedDatabase run interleaves with its
\* sub-queries; in particular it never returns numberOfInvoices = 0 together
\* with a paid or pending total that is not 0, nor numberOfCustomers = 0
\* together with invoices, which no store state of a seeding has.
C27_CardSnapshot ==
    cardState = "returned" =>
        /\ cardOut.numberOfInvoices = 0 =>
              (cardOut.totalPaidInvoices = 0 /\ cardOut.totalPendingInvoices = 0)
        /\ cardOut.numberOfCustomers = 0 => cardOut.numberOfInvoices = 0

(***************************************************************************)
(* Properties of the two variants of the invoice search.                   *)
(***************************************************************************)
\* The variant that does not run.
OtherVariant == IF variant = "prisma" THEN "drizzle" ELSE "prisma"

\* What the other variant may return for the same store, query and page: the
\* id sequences of its pages, and its page count.
OtherPages(query, currentPage) ==
    LET matching == {inv \in invoices : MatchesIn(OtherVariant, inv, query)}
    IN { [k \in 1..Len(PageOf(o, currentPage)) |-> PageOf(o, currentPage)[k].id] :
           o \in DateDescOrders(matching) }

OtherPageCount(query) ==
    TotalPages(Cardinality({inv \in invoices : MatchesIn(OtherVariant, inv, query)}))

\* C29: the Drizzle and the Prisma variant are equivalent on invoice search:
\* for every store, query and page number the sequence of invoice ids one
\* fetchFilteredInvoices returns is one the other returns, and both
\* fetchInvoicesPages return the same page count.
C29_VariantsEquivalent ==
    /\ (last.op = "fetchFilteredInvoices" /\ ~last.storeFailed) =>
          [k \in 1..Len(last.result.value) |-> last.result.value[k].id]
              \in OtherPages(last.query, last.page)
    /\ (last.op = "fetchInvoicesPages" /\ ~last.storeFailed) =>
          last.result.value = OtherPageCount(last.query)

(***************************************************************************)
(* Termination of the seeding.                                             *)
(***************************************************************************)
Settled(p) == status[p] \in {"completed", "rejected"}

\* A response once given is not given again or changed.
RespondsOnce == \A p \in Procs : response[p] # NoResponse => response'[p] = response[p]

\* C30: every seedDatabase invocation eventually completes or rejects,
\* provided every store call and every hash it issues returns or fails in the
\* end; so every GET on the seed route eventually gives a response, and one
\* only.
C30_SeedTerminates ==
    /\ \A p \in Procs : (status[p] = "running") ~> Settled(p)
    /\ \A p \in Procs : (status[p] # "idle") ~> (response[p] # NoResponse)
    /\ [][RespondsOnce]_vars

\* Both requests have been answered and no call of either is in flight.
C30_Witness ==
    \A p \in Procs :
        /\ response[p] # NoResponse
        /\ \A t \in Tasks : taskPc[p][t] \notin InFlight
        /\ invPc[p] \notin {"count", "insert"}

====
